---- MODULE Spec2Model ----
(***************************************************************************)
(* The mod management engine of msfs-mod-manager (lib/flight_sim.py): the  *)
(* active location (the sim's Community folder), the cache location (the   *)
(* mod install folder), the symbolic links between them and the memoized   *)
(* manifest parses, under install / enable / disable / uninstall / list.   *)
(*                                                                         *)
(* lib/files.py is not part of the available sources.  Its primitives      *)
(* (delete_folder, copy_folder, move_folder, create_symlink, ...) are      *)
(* modelled from section 4.1 of the specification.                         *)
(***************************************************************************)
EXTENDS Integers, Sequences, FiniteSets, TLC

VARIABLES active, cache, memo, out, lru, ver, thr, host, sim

vars == <<active, cache, memo, out, lru, ver, thr, host, sim>>

\* the variables of the engine, and the ones it leaves alone
engine == <<active, cache, memo, out>>
aside == <<lru, ver, thr, host, sim>>

(***************************************************************************)
(* Bounds.                                                                 *)
(***************************************************************************)
\* the largest number of direct sub-folders of an extracted archive root
MaxKids == 2
\* the latest delete of one operation that the environment may deny
MaxFault == 1

\* mod folder base names, in directory listing order
NameOrder == <<"A", "B">>
Names == {NameOrder[i] : i \in 1..Len(NameOrder)}

Locs == {"active", "cache"}
Paths == Locs \X Names
NoPath == <<"-", "-">>

(***************************************************************************)
(* Folder contents.  man: the state of manifest.json ("none": no file,     *)
(* "bad": not valid JSON, "array": valid JSON that is not an object, "ok":  *)
(* a JSON object); data: the rest of the tree (0: no other file); ct: the  *)
(* creation time of manifest.json (0 when there is none), counted as the   *)
(* number of copies that re-created it.                                    *)
(***************************************************************************)
Mans == {"none", "bad", "array", "ok"}
None == [k |-> "none", man |-> "none", data |-> 0, ct |-> 0, to |-> NoPath]
Dir(man, data, ct) == [k |-> "dir", man |-> man, data |-> data, ct |-> ct, to |-> NoPath]
Link(target) == [k |-> "link", man |-> "none", data |-> 0, ct |-> 0, to |-> target]

\* the state threaded through the filesystem primitives of one operation:
\* the two locations, the number of deletes still to run before one is
\* denied (0: none is), the exception raised so far and the number of trees
\* copied
St(a, c, n) == [fs |-> [active |-> a, cache |-> c], n |-> n, err |-> "none", copies |-> 0]

At(s, p) == s.fs[p[1]][p[2]]
Put(s, p, e) == [s EXCEPT !.fs[p[1]][p[2]] = e]

\* a delete whose permission repair may not help: skipped when an exception
\* is already propagating, raising AccessError when it is the one the
\* environment denies, else its effect
Try(s, eff) ==
  IF s.err # "none" THEN s
  ELSE IF s.n = 1 THEN [s EXCEPT !.err = "AccessError", !.n = 0]
  ELSE [eff EXCEPT !.n = IF s.n = 0 THEN 0 ELSE s.n - 1]

\* files.is_symlink
is_symlink(s, p) == At(s, p).k = "link"

\* os.path.isdir through links: a directory, or a link to one
Target(s, p) ==
  IF At(s, p).k = "link"
  THEN (IF At(s, p).to = NoPath THEN None ELSE
        IF At(s, At(s, p).to).k = "dir" THEN At(s, At(s, p).to) ELSE None)
  ELSE At(s, p)

\* files.delete_folder: removes the tree (or the link) at p; no-op if absent;
\* AccessError when the permission repair did not help
delete_folder(s, p) ==
  IF s.err # "none" \/ At(s, p).k = "none" THEN s
  ELSE Try(s, Put(s, p, None))

\* shutil.copytree of the tree e: a fresh tree at dest, its manifest.json
\* (if it has one) created anew
copytree(s, e, dest) ==
  IF s.err # "none" THEN s
  ELSE [Put(s, dest, Dir(e.man, e.data, IF e.man = "none" THEN 0 ELSE e.ct + 1))
          EXCEPT !.copies = @ + 1]

\* files.copy_folder of the tree e: if it exists, delete dest, then copy
copy_folder(s, e, dest) ==
  IF s.err # "none" \/ e.k # "dir" THEN s
  ELSE copytree(delete_folder(s, dest), e, dest)

\* files.move_folder: copy, then delete the source
move_folder(s, src, dest) ==
  delete_folder(copy_folder(s, Target(s, src), dest), src)

\* files.create_symlink(target, link): fails when the target folder does not
\* exist or when something already is at the link's path
create_symlink(s, target, link) ==
  IF s.err # "none" THEN s
  ELSE IF At(s, target).k # "dir" THEN [s EXCEPT !.err = "FileNotFoundError"]
  ELSE IF At(s, link).k # "none" THEN [s EXCEPT !.err = "FileExistsError"]
  ELSE Put(s, link, Link(target))

\* files.delete_symlink: unlinks the link itself
delete_symlink(s, p) ==
  IF s.err # "none" THEN s
  ELSE Put(s, p, None)

\* flight_sim.get_mod_folder
get_mod_folder(folder, enabled) ==
  IF enabled THEN <<"active", folder>> ELSE <<"cache", folder>>

\* enable_mod with the two paths of the link the wrong way round
enable_mod_swapped(s, folder) ==
  create_symlink(s, get_mod_folder(folder, TRUE), get_mod_folder(folder, FALSE))

\* enable_mod clearing the active path before it links
enable_mod_replaces(s, folder) ==
  create_symlink(delete_folder(s, get_mod_folder(folder, TRUE)),
                 get_mod_folder(folder, FALSE), get_mod_folder(folder, TRUE))

\* enable_mod copying the cache folder into the active location
enable_mod_copies(s, folder) ==
  copy_folder(s, At(s, get_mod_folder(folder, FALSE)), get_mod_folder(folder, TRUE))

\* disable_mod copying a physically present mod instead of moving it
disable_mod_copies(s, folder) ==
  IF is_symlink(s, get_mod_folder(folder, TRUE))
  THEN delete_symlink(s, get_mod_folder(folder, TRUE))
  ELSE copy_folder(s, Target(s, get_mod_folder(folder, TRUE)),
                   get_mod_folder(folder, FALSE))

\* disable_mod without the symbolic link test
disable_mod_always_moves(s, folder) ==
  move_folder(s, get_mod_folder(folder, TRUE), get_mod_folder(folder, FALSE))

\* flight_sim.uninstall_mod
uninstall_mod(s, folder) == delete_folder(s, folder)

\* flight_sim.enable_mod
enable_mod(s, folder) ==
  create_symlink(s, get_mod_folder(folder, FALSE), get_mod_folder(folder, TRUE))

\* flight_sim.disable_mod
disable_mod(s, folder) ==
  IF is_symlink(s, get_mod_folder(folder, TRUE))
  THEN delete_symlink(s, get_mod_folder(folder, TRUE))
  ELSE move_folder(s, get_mod_folder(folder, TRUE), get_mod_folder(folder, FALSE))

(***************************************************************************)
(* The metadata cache: functools.lru_cache on parse_mod_manifest, keyed by *)
(* the call's arguments.  Exceptions are not memoized.                     *)
(***************************************************************************)
Keys == Paths \X BOOLEAN
NoEntry == [folder_name |-> "-", man |-> "none", time_mod |-> 0,
            enabled |-> FALSE, full_path |-> NoPath]

\* the body of flight_sim.parse_mod_manifest, read from the disk: the
\* exception it raises ("none": it returns) and the record it returns
manifest_error(s, mod_folder) ==
  IF Target(s, mod_folder).k # "dir" \/ Target(s, mod_folder).man = "none"
  THEN "NoManifestError"
  ELSE IF Target(s, mod_folder).man = "bad" THEN "ManifestError"
  ELSE IF Target(s, mod_folder).man = "array" THEN "AttributeError"
  ELSE "none"

manifest_data(s, mod_folder, enabled) ==
  [folder_name |-> mod_folder[2],
   man         |-> Target(s, mod_folder).man,
   time_mod    |-> Target(s, mod_folder).ct,
   enabled     |-> enabled,
   full_path   |-> mod_folder]

\* the call of flight_sim.parse_mod_manifest (with its lru_cache wrapper) in
\* the loop of flight_sim.get_mods, on the listing state
\* L = [s, memo, mods, errors]: a hit returns the memoized record; of the
\* exceptions only NoManifestError and ManifestError are caught
parse_mod_manifest(L, mod_folder, enabled) ==
  IF L.memo[<<mod_folder, enabled>>] # NoEntry
  THEN [L EXCEPT !.mods = Append(@, L.memo[<<mod_folder, enabled>>])]
  ELSE IF manifest_error(L.s, mod_folder) \in {"NoManifestError", "ManifestError"}
  THEN [L EXCEPT !.errors = Append(@, mod_folder)]
  ELSE IF manifest_error(L.s, mod_folder) # "none"
  THEN [L EXCEPT !.s.err = manifest_error(L.s, mod_folder)]
  ELSE [L EXCEPT !.mods = Append(@, manifest_data(L.s, mod_folder, enabled)),
                 !.memo[<<mod_folder, enabled>>] =
                    manifest_data(L.s, mod_folder, enabled)]

\* flight_sim.clear_mod_cache
clear_mod_cache == [key \in Keys |-> NoEntry]

\* the body of flight_sim.parse_mod_files: the (path, size) pairs of a tree
parse_mod_files(s, mod_folder) ==
  (IF Target(s, mod_folder).man = "none" THEN {}
   ELSE {<<"manifest.json", IF Target(s, mod_folder).man = "ok" THEN 2 ELSE 1>>})
  \cup (IF Target(s, mod_folder).data = 0 THEN {}
        ELSE {<<"data.bin", Target(s, mod_folder).data>>})

\* files.listdir_dirs(loc, full_paths=True): directories and links to
\* directories; a broken link passes the directory test as well
listdir_dirs(s, loc) ==
  SelectSeq([i \in 1..Len(NameOrder) |-> <<loc, NameOrder[i]>>],
            LAMBDA p : At(s, p).k # "none")

\* os.listdir of a mod folder: "missing" for a broken link
os_listdir(s, p) ==
  IF Target(s, p).k # "dir" THEN "missing"
  ELSE IF Target(s, p).man = "none" /\ Target(s, p).data = 0 THEN "empty"
  ELSE "files"

\* get_mods_step parsing every folder, empty and broken ones as well
get_mods_step_keeps(L, folder, enabled) ==
  IF L.s.err # "none" THEN L
  ELSE parse_mod_manifest(L, folder, enabled)

\* one iteration of the loop of flight_sim.get_mods
get_mods_step(L, folder, enabled) ==
  IF L.s.err # "none" THEN L
  ELSE IF os_listdir(L.s, folder) = "empty"
  THEN [L EXCEPT !.s = delete_folder(L.s, folder)]
  ELSE IF os_listdir(L.s, folder) = "missing"
  THEN [L EXCEPT !.s = delete_symlink(L.s, folder)]
  ELSE parse_mod_manifest(L, folder, enabled)

\* flight_sim.get_mods: the mods and errors of one list of folders, appended
\* to L.mods and L.errors
RECURSIVE get_mods(_, _, _)
get_mods(L, folders, enabled) ==
  IF folders = <<>> THEN L
  ELSE get_mods(get_mods_step(L, Head(folders), enabled), Tail(folders), enabled)

\* the reconciliation of flight_sim.get_all_mods: the cache folders left in
\* the disabled list
disabled_folders(s) ==
  SelectSeq(listdir_dirs(s, "cache"),
            LAMBDA p : ~ (At(s, <<"active", p[2]>>).k # "none"
                          /\ is_symlink(s, <<"active", p[2]>>)))

\* flight_sim.get_all_mods
get_all_mods(s, m) ==
  get_mods(get_mods([s |-> s, memo |-> m, mods |-> <<>>, errors |-> <<>>],
                    listdir_dirs(s, "active"), TRUE),
           disabled_folders(s), FALSE)

(***************************************************************************)
(* functools.lru_cache() as it wraps parse_mod_manifest, with its size: the *)
(* keys in the order of their last use, the keys parsed since the last     *)
(* cache_clear, the folder the listing parses next, and the last call.     *)
(***************************************************************************)
\* the maxsize of functools.lru_cache() when none is given
lru_maxsize == 128
\* the mod folders of a listing
MaxFolders == 129

NoCall == [path |-> 0, enabled |-> FALSE, hit |-> FALSE]
NoLru == [order |-> <<>>, seen |-> {}, at |-> 0, last |-> NoCall]

\* a call of the wrapped parse_mod_manifest(path, enabled): a hit makes the
\* key the most recently used; a miss parses from the disk, stores the key
\* and, the cache being full, drops the least recently used one
lru_cache(c, path, enabled) ==
  LET key == <<path, enabled>>
      hit == \E i \in 1..Len(c.order) : c.order[i] = key
      kept == IF hit THEN SelectSeq(c.order, LAMBDA k : k # key)
              ELSE IF Len(c.order) = lru_maxsize THEN Tail(c.order)
              ELSE c.order
  IN [c EXCEPT !.order = Append(kept, key),
               !.seen = @ \cup {key},
               !.last = [path |-> path, enabled |-> enabled, hit |-> hit]]

\* parse_mod_manifest.cache_clear()
cache_clear(c) == [c EXCEPT !.order = <<>>, !.seen = {}, !.last = NoCall]

(***************************************************************************)
(* The game version.  The official packages folder is the list of its      *)
(* store sub-folders, each with the state of its fs-base package: k "none" *)
(* (no such folder) or "dir", its manifest.json and the                    *)
(* minimum_game_version the manifest gives.                                *)
(***************************************************************************)
\* the largest number of store folders in the official packages folder
MaxStores == 2

Versions == {"", "1.7", "1.8"}
FsBases ==
  {[k |-> "none", man |-> "none", version |-> ""]}
    \cup {[k |-> "dir", man |-> m, version |-> ""] : m \in {"none", "bad", "array"}}
    \cup {[k |-> "dir", man |-> "ok", version |-> v] : v \in Versions}
Officials == UNION {[1..n -> FsBases] : n \in 0..MaxStores}

\* what the two lru_cache wrappers hold: the store get_sim_official_folder
\* returned (0: not called yet) and the version parse_mod_manifest(fs_base)
\* found ("-": not parsed yet)
NoVerMemo == [store |-> 0, version |-> "-"]

\* flight_sim.get_sim_official_folder with its lru_cache wrapper: the first
\* store folder; [0] of an empty list raises IndexError
get_sim_official_folder(o, m) ==
  IF m.store # 0 THEN [store |-> m.store, err |-> "none"]
  ELSE IF Len(o) = 0 THEN [store |-> 0, err |-> "IndexError"]
  ELSE [store |-> 1, err |-> "none"]

\* flight_sim.get_game_version on the official folder o with the memoized
\* values m: the value returned, the exception raised, the memoized values
get_game_version(o, m) ==
  LET f == get_sim_official_folder(o, m)
      is_dir == f.store <= Len(o) /\ o[f.store].k = "dir"
      fs_base == o[f.store]
      m1 == [m EXCEPT !.store = f.store]
  IN IF f.err # "none" THEN [value |-> "-", err |-> f.err, m |-> m]
     ELSE IF ~ is_dir THEN [value |-> "???", err |-> "none", m |-> m1]
     ELSE IF m.version # "-" THEN [value |-> m.version, err |-> "none", m |-> m1]
     ELSE IF fs_base.man = "none" THEN [value |-> "-", err |-> "NoManifestError", m |-> m1]
     ELSE IF fs_base.man = "bad" THEN [value |-> "-", err |-> "ManifestError", m |-> m1]
     ELSE IF fs_base.man = "array" THEN [value |-> "-", err |-> "AttributeError", m |-> m1]
     ELSE [value |-> fs_base.version, err |-> "none",
           m |-> [m1 EXCEPT !.version = fs_base.version]]

NoVersion == [value |-> "-", err |-> "-"]
NoVer == [official |-> <<>>, m |-> NoVerMemo, result |-> NoVersion]

(***************************************************************************)
(* Worker threads (lib/thread.py).  A worker runs one engine call; its    *)
(* signals reach the slots connected by thread_wait as queued events of   *)
(* the coordination thread, which takes them when an event loop runs: the *)
(* loop of thread_wait, or the application's once the wait has returned.   *)
(***************************************************************************)
\* the largest number of progress updates a worker emits
MaxUpdates == 2

ReturnValues == {"True", "installed_mods"}
Exceptions == {"AccessError", "NoModsError"}
\* what the wrapped engine call does when it ends
Results ==
  {[raised |-> FALSE, val |-> v] : v \in ReturnValues}
    \cup {[raised |-> TRUE, val |-> e] : e \in Exceptions}

NoResult == [raised |-> FALSE, val |-> "-"]

\* the arguments of thread_wait: a timeout (or None), a finish function, a
\* failed signal with a failed function, an update signal
WaitArgs ==
  [timeout : BOOLEAN, finish_func : BOOLEAN, failed : BOOLEAN, update : BOOLEAN]

\* a run that emits finished after failed when the call raises
run_emits_both(result) ==
  [emits |-> IF result.raised
             THEN <<[sig |-> "failed", val |-> result.val],
                    [sig |-> "finished", val |-> result.val]>>
             ELSE <<[sig |-> "finished", val |-> result.val]>>,
   calls |-> 1]

\* base_thread.run on a call that ends with result: the signals it emits
\* and the number of times it makes the call
run(result) ==
  [emits |-> IF result.raised
             THEN <<[sig |-> "failed", val |-> result.val]>>
             ELSE <<[sig |-> "finished", val |-> result.val]>>,
   calls |-> 1]

\* thread_wait up to its yield: the loop is made, the slots are connected,
\* the timer is started when a timeout is given
thread_wait(args) ==
  [args |-> args,
   loop |-> "made",
   timer |-> IF args.timeout THEN "armed" ELSE "off",
   worker |-> "new", result |-> NoResult, calls |-> 0, updates |-> 0,
   emitted |-> <<>>, queue |-> <<>>,
   finish_calls |-> 0, failed_calls |-> 0,
   at_timeout |-> "none", early |-> FALSE, step |-> "wait"]

\* timer.stop() in the quit functions: there is a timer when a timeout is given
timer_stop(t) == IF t.args.timeout THEN "off" ELSE t.timer

\* the slots of the finished signal: finished_quit, then finish_func
finished_slots(t) ==
  [t EXCEPT !.loop = IF @ = "running" THEN "quit" ELSE @,
            !.timer = timer_stop(t),
            !.finish_calls = IF t.args.finish_func THEN @ + 1 ELSE @]

\* the slot of the failed signal, connected when a failed function is given
failed_slots(t) ==
  IF ~ t.args.failed THEN t
  ELSE [t EXCEPT !.loop = IF @ = "running" THEN "failed" ELSE @,
                 !.timer = timer_stop(t),
                 !.failed_calls = @ + 1]

\* the slot of the update signal: the timer is started again
update_slots(t) ==
  IF t.args.update /\ t.args.timeout THEN [t EXCEPT !.timer = "armed"] ELSE t

\* a timeout function that also terminates the worker
timeout_quit_terminates(t) ==
  [t EXCEPT !.loop = IF @ = "running" THEN "failed" ELSE @,
            !.timer = "off",
            !.worker = IF @ = "running" THEN "terminated" ELSE @]

\* timeout_quit: loop.exit(1); the timer is single shot
timeout_quit(t) ==
  [t EXCEPT !.loop = IF @ = "running" THEN "failed" ELSE @,
            !.timer = "off"]

NoThread == [thread_wait([timeout |-> FALSE, finish_func |-> FALSE,
                          failed |-> FALSE, update |-> FALSE])
               EXCEPT !.step = "none"]

(***************************************************************************)
(* Locating the packages folder.  A host is the configuration file and the *)
(* folders the detection looks at: for each install that is found through  *)
(* its UserCfg.opt, whether the folder is a sim folder (FlightSimulator.CFG *)
(* is there) and what its UserCfg.opt holds; and the set of paths that are  *)
(* packages folders (they hold Official and Community).                     *)
(***************************************************************************)
\* the installs detected through UserCfg.opt, in the order they are tried
SimFolders == {"steam", "ms_store", "last_ditch_1", "last_ditch_2"}
\* "none": not a sim folder; else a sim folder whose UserCfg.opt is missing,
\* has no InstalledPackagesPath line, or has one
UserCfgs == {"none", "missing", "noline", "line"}
\* the path the InstalledPackagesPath line of a sim folder names
installed_packages_path(sim_folder) == <<sim_folder, "InstalledPackagesPath">>
boxed_packages_folder == <<"LOCALAPPDATA", "MSFSPackages">>
config_packages_folder == <<"config", "sim_folder">>
PackagesPaths ==
  {installed_packages_path(f) : f \in SimFolders}
    \cup {boxed_packages_folder, config_packages_folder}

NoFound == [read |-> FALSE, path |-> NoPath, err |-> "-"]

\* flight_sim.parse_user_cfg: open raises when there is no file, and
\* "".split(" ", 1)[1] raises when no line starts with InstalledPackagesPath
parse_user_cfg(h, sim_folder) ==
  CASE h.folders[sim_folder] = "missing" ->
         [path |-> NoPath, err |-> "FileNotFoundError"]
    [] h.folders[sim_folder] = "noline" ->
         [path |-> NoPath, err |-> "IndexError"]
    [] OTHER -> [path |-> installed_packages_path(sim_folder), err |-> "none"]

is_sim_folder(h, folder) == h.folders[folder] # "none"

is_sim_packages_folder(h, folder) == folder \in h.packages

\* one detection through UserCfg.opt: the folder found (or NoPath) and the
\* exception that leaves find_sim_packages_folder
detect(h, sim_folder) ==
  IF ~ is_sim_folder(h, sim_folder) THEN [path |-> NoPath, err |-> "none"]
  ELSE LET p == parse_user_cfg(h, sim_folder)
       IN IF p.err # "none" THEN p
          ELSE IF is_sim_packages_folder(h, p.path) THEN p
          ELSE [path |-> NoPath, err |-> "none"]

Located(read, d) == [read |-> read, path |-> d.path, err |-> d.err]

\* flight_sim.find_sim_packages_folder: (read, path), or the exception
find_sim_packages_folder(h) ==
  IF h.config.succeed /\ is_sim_packages_folder(h, h.config.value)
  THEN [read |-> TRUE, path |-> h.config.value, err |-> "none"]
  ELSE LET steam == detect(h, "steam")
           ms_store == detect(h, "ms_store")
           last_1 == detect(h, "last_ditch_1")
           last_2 == detect(h, "last_ditch_2")
       IN CASE steam.err # "none" \/ steam.path # NoPath -> Located(FALSE, steam)
            [] ms_store.err # "none" \/ ms_store.path # NoPath -> Located(FALSE, ms_store)
            [] is_sim_packages_folder(h, boxed_packages_folder) ->
                 [read |-> FALSE, path |-> boxed_packages_folder, err |-> "none"]
            [] last_1.err # "none" \/ last_1.path # NoPath -> Located(FALSE, last_1)
            [] OTHER -> Located(FALSE, last_2)

Hosts ==
  [config : [succeed : BOOLEAN, value : {config_packages_folder}],
   folders : [SimFolders -> UserCfgs],
   packages : SUBSET PackagesPaths,
   found : {NoFound}]

NoHost ==
  [config |-> [succeed |-> FALSE, value |-> config_packages_folder],
   folders |-> [f \in SimFolders |-> "none"],
   packages |-> {},
   found |-> NoFound]

(***************************************************************************)
(* The folder getters of an engine instance.  get_sim_mod_folder and       *)
(* get_mod_folder are wrapped in functools.lru_cache: a call with          *)
(* arguments seen before returns the value computed then.  The packages    *)
(* folders hold no links, so resolve_symlink and fix_path leave the joined *)
(* path as it is.                                                          *)
(***************************************************************************)
\* the values sim_packages_folder takes: "" after __init__
PackagesFolders == {"", "packages_1", "packages_2"}
ModKeys == Names \X BOOLEAN
mod_install_folder == "mod_install_folder"

NoSim ==
  [sim_packages_folder |-> "",
   sim_mod_folder |-> NoPath,
   mod_folder |-> [k \in ModKeys |-> NoPath],
   last |-> [op |-> "init", value |-> NoPath]]

\* flight_sim.get_sim_mod_folder: the value returned and the instance after
get_sim_mod_folder(g) ==
  IF g.sim_mod_folder # NoPath THEN [value |-> g.sim_mod_folder, g |-> g]
  ELSE LET v == <<g.sim_packages_folder, "Community">>
       IN [value |-> v, g |-> [g EXCEPT !.sim_mod_folder = v]]

\* flight_sim.get_mod_folder with its memo (get_mod_folder above is the same
\* function on one fixed packages folder)
get_mod_folder_cached(g, folder, enabled) ==
  IF g.mod_folder[<<folder, enabled>>] # NoPath
  THEN [value |-> g.mod_folder[<<folder, enabled>>], g |-> g]
  ELSE LET r == get_sim_mod_folder(g)
           v == IF enabled THEN Append(r.value, folder)
                ELSE <<mod_install_folder, folder>>
           h == IF enabled THEN r.g ELSE g
       IN [value |-> v, g |-> [h EXCEPT !.mod_folder[<<folder, enabled>>] = v]]

\* flight_sim.clear_mod_cache on the instance: the memos of the three parse
\* functions are cleared, those of the folder getters are not
clear_mod_cache_getters(g) == g

(***************************************************************************)
(* Extracted archives: a tree of folders, each [name, man, data, sub].     *)
(***************************************************************************)
Node(name, man, sub) == [name |-> name, man |-> man, data |-> 1, sub |-> sub]
ArchLeafs == {Node(n, "ok", <<>>) : n \in Names}
ArchNested == {Node("A", m, <<Node("B", "ok", <<>>)>>) : m \in {"none", "ok"}}
KidSeqs == UNION {[1..n -> ArchLeafs] : n \in 0..MaxKids}
             \cup {<<k>> : k \in ArchNested} \cup {<<Node("B", "none", <<>>)>>}
Archives == {Node("B", "none", ks) : ks \in KidSeqs}
              \cup {Node("B", "ok", ks) : ks \in {<<>>, <<Node("A", "ok", <<>>)>>}}

\* a discovered mod folder: its base name, its tree and where it is in the
\* extracted archive (the indexes from the root down)
Found(node, id) == [name |-> node.name, e |-> Dir(node.man, node.data, 0), id |-> id]

has_manifest(node) == node.man # "none"

\* os.walk below a folder, as flight_sim.determine_mod_folders reads it: the
\* sub-folders holding a manifest.json, then the walk of each sub-folder
RECURSIVE walk(_, _), walk_subs(_, _, _)
walk(node, id) ==
  LET here == SelectSeq([i \in 1..Len(node.sub) |-> Found(node.sub[i], Append(id, i))],
                        LAMBDA f : has_manifest(node.sub[f.id[Len(f.id)]]))
  IN here \o walk_subs(node, id, 1)
walk_subs(node, id, i) ==
  IF i > Len(node.sub) THEN <<>>
  ELSE walk(node.sub[i], Append(id, i)) \o walk_subs(node, id, i + 1)

\* determine_mod_folders without the test of the root folder
determine_mod_folders_below(folder) == walk(folder, <<>>)

\* flight_sim.determine_mod_folders; <<>> stands for NoModsError
determine_mod_folders(folder) ==
  (IF has_manifest(folder) THEN <<Found(folder, <<>>)>> ELSE <<>>) \o walk(folder, <<>>)

\* whether a folder of the extracted archive is still there: neither it nor
\* a folder above it was moved away
IsPrefix(a, b) == Len(a) <= Len(b) /\ SubSeq(b, 1, Len(a)) = a
SourceOf(I, f) ==
  IF \E m \in I.moved : IsPrefix(m, f.id) THEN None ELSE f.e

\* deleting the source of a move from the extracted archive
delete_source(I, f) ==
  IF I.s.err # "none" \/ SourceOf(I, f).k = "none" THEN I
  ELSE IF I.s.n = 1 THEN [I EXCEPT !.s = Try(I.s, I.s)]
  ELSE [I EXCEPT !.s = Try(I.s, I.s), !.moved = @ \cup {f.id}]

\* install_step undoing the batch when a mod folder fails: the links and the
\* cache folders of the mods installed before it are removed
install_step_rollback(I, f, delete) ==
  LET copied == [I EXCEPT !.s = copy_folder(I.s, SourceOf(I, f), <<"cache", f.name>>)]
      placed == IF delete THEN delete_source(copied, f) ELSE copied
      linked == [placed EXCEPT !.s = create_symlink(placed.s, <<"cache", f.name>>,
                                                     <<"active", f.name>>)]
      undone == [loc \in Locs |->
                   [n \in Names |->
                      IF \E i \in 1..Len(I.installed) : I.installed[i] = n
                      THEN None ELSE linked.s.fs[loc][n]]]
  IN IF linked.s.err # "none" THEN [linked EXCEPT !.s.fs = undone]
     ELSE [linked EXCEPT !.installed = Append(@, f.name)]

\* install_step clearing the metadata cache after each mod folder
install_step_clears(I, f, delete) ==
  LET copied == [I EXCEPT !.s = copy_folder(I.s, SourceOf(I, f), <<"cache", f.name>>)]
      placed == IF delete THEN delete_source(copied, f) ELSE copied
      linked == [placed EXCEPT !.s = create_symlink(placed.s, <<"cache", f.name>>,
                                                     <<"active", f.name>>)]
  IN IF linked.s.err # "none" THEN linked
     ELSE [linked EXCEPT !.installed = Append(@, f.name),
                         !.clears = Append(@, Len(I.installed) + 1)]

\* install_step without the symbolic link
install_step_unlinked(I, f, delete) ==
  LET copied == [I EXCEPT !.s = copy_folder(I.s, SourceOf(I, f), <<"cache", f.name>>)]
      placed == IF delete THEN delete_source(copied, f) ELSE copied
  IN IF placed.s.err # "none" THEN placed
     ELSE [placed EXCEPT !.installed = Append(@, f.name)]

\* one iteration of the loop of flight_sim.install_mods on
\* I = [s, installed, moved]
install_step(I, f, delete) ==
  LET install_folder == <<"cache", f.name>>
      dest_folder    == <<"active", f.name>>
      copied == [I EXCEPT !.s = copy_folder(I.s, SourceOf(I, f), install_folder)]
      placed == IF delete THEN delete_source(copied, f) ELSE copied
      linked == [placed EXCEPT !.s = create_symlink(placed.s, install_folder, dest_folder)]
  IN IF linked.s.err # "none" THEN linked
     ELSE [linked EXCEPT !.installed = Append(@, f.name)]

RECURSIVE install_loop(_, _, _)
install_loop(I, mod_folders, delete) ==
  IF mod_folders = <<>> \/ I.s.err # "none" THEN I
  ELSE install_loop(install_step(I, Head(mod_folders), delete), Tail(mod_folders), delete)

\* determine_mod_folders of every archive, computed once
Discovered == [a \in Archives |-> determine_mod_folders(a)]

\* flight_sim.install_mods: [s, installed, moved, clears]; clears lists the
\* calls of clear_mod_cache, each as the number of mod folders installed
\* when it was made
install_mods(s, folder, delete) ==
  LET I == install_loop([s |-> s, installed |-> <<>>, moved |-> {}, clears |-> <<>>],
                        Discovered[folder], delete)
  IN IF Discovered[folder] = <<>>
     THEN [s |-> [s EXCEPT !.err = "NoModsError"], installed |-> <<>>, moved |-> {},
           clears |-> <<>>]
     ELSE IF I.s.err # "none" THEN I
     ELSE [I EXCEPT !.clears = Append(@, Len(I.installed))]

(***************************************************************************)
(* The state machine.  out reports the last operation that ran: its name,  *)
(* the folder it was given, the exception it raised and the state its mod  *)
(* was in when it began.                                                   *)
(***************************************************************************)
Out(op, arg, err, was) == [op |-> op, arg |-> arg, err |-> err, was |-> was]

\* the state of mod n in the locations a and c
mod_state(a, c, n) ==
  IF a[n] = Link(<<"cache", n>>) /\ c[n].k = "dir" THEN "linked"
  ELSE IF a[n].k = "dir" /\ c[n].k = "none" THEN "physical"
  ELSE IF a[n].k = "none" /\ c[n].k = "dir" THEN "cached"
  ELSE IF a[n].k = "none" /\ c[n].k = "none" THEN "absent"
  ELSE "mixed"

\* the folder a mod has before the engine first runs: the first mod's may
\* be unreadable or empty, the others' hold a manifest
InitDirs(n) ==
  IF n = NameOrder[1]
  THEN {Dir("ok", 1, 0), Dir("bad", 1, 0), Dir("array", 1, 0),
        Dir("none", 1, 0), Dir("none", 0, 0)}
  ELSE {Dir("ok", 1, 0)}

\* the states of a mod before the engine first runs: physically active,
\* cached (linked or not), absent
InitMods(n) ==
  {<<d, None>> : d \in InitDirs(n)}
    \cup {<<None, d>> : d \in InitDirs(n)}
    \cup {<<None, None>>}

Init ==
  /\ lru = NoLru
  /\ ver = NoVer
  /\ thr = NoThread
  /\ host = NoHost
  /\ sim = NoSim
  /\ \E st \in [Names -> (UNION {InitMods(n) : n \in Names}) \X BOOLEAN] :
       /\ \A n \in Names : st[n][1] \in InitMods(n)
       /\ \A n \in Names : st[n][2] => (st[n][1][1] = None /\ st[n][1][2] # None)
       /\ active = [n \in Names |-> IF st[n][2] THEN Link(<<"cache", n>>) ELSE st[n][1][1]]
       /\ cache = [n \in Names |-> st[n][1][2]]
  /\ memo = clear_mod_cache
  /\ out = Out("init", NoPath, "none", "-")

\* the filesystem and the report an operation leaves behind
Leaves(s, op, arg) ==
  /\ active' = s.fs.active
  /\ cache' = s.fs.cache
  /\ out' = Out(op, arg, s.err,
                IF arg = NoPath THEN "-" ELSE mod_state(active, cache, arg[2]))
  /\ UNCHANGED aside

Install(folder, delete, fault) ==
  LET r == install_mods(St(active, cache, fault), folder, delete)
  IN /\ Leaves(r.s, "install", NoPath)
     /\ memo' = IF r.clears # <<>> THEN clear_mod_cache ELSE memo

Enable(folder) ==
  /\ Leaves(enable_mod(St(active, cache, 0), folder), "enable", <<"-", folder>>)
  /\ memo' = memo

Disable(folder, fault) ==
  /\ Leaves(disable_mod(St(active, cache, fault), folder), "disable", <<"-", folder>>)
  /\ memo' = memo

Uninstall(folder, fault) ==
  /\ Leaves(uninstall_mod(St(active, cache, fault), folder), "uninstall", folder)
  /\ memo' = memo

ListAll(fault) ==
  LET L == get_all_mods(St(active, cache, fault), memo)
  IN /\ Leaves(L.s, "list", NoPath)
     /\ memo' = L.memo

ClearCache ==
  /\ memo' = clear_mod_cache
  /\ out' = Out("clear", NoPath, "none", "-")
  /\ UNCHANGED <<active, cache>>
  /\ UNCHANGED aside

Next ==
  \/ \E folder \in Archives, delete \in BOOLEAN, fault \in 0..MaxFault :
       Install(folder, delete, fault)
  \/ \E folder \in Names : Enable(folder)
  \/ \E folder \in Names, fault \in 0..MaxFault : Disable(folder, fault)
  \/ \E folder \in Paths, fault \in 0..MaxFault : Uninstall(folder, fault)
  \/ \E fault \in 0..MaxFault : ListAll(fault)
  \/ ClearCache

Spec == Init /\ [][Next]_vars

(***************************************************************************)
(* The metadata cache under listings of MaxFolders mod folders.            *)
(***************************************************************************)
\* the engine at rest: no mod, nothing memoized
EngineIdle ==
  /\ active = [n \in Names |-> None]
  /\ cache = [n \in Names |-> None]
  /\ memo = clear_mod_cache
  /\ out = Out("init", NoPath, "none", "-")

InitLru ==
  /\ EngineIdle
  /\ ver = NoVer
  /\ thr = NoThread
  /\ host = NoHost
  /\ sim = NoSim
  /\ lru = [NoLru EXCEPT !.at = 1]

\* get_mods parses the next folder of the active location
LruList ==
  /\ lru' = [lru_cache(lru, lru.at, TRUE)
               EXCEPT !.at = IF lru.at = MaxFolders THEN 1 ELSE lru.at + 1]
  /\ UNCHANGED <<engine, ver, thr, host, sim>>

\* between two listings, a call of parse_mod_manifest for the first folder
LruCall(enabled) ==
  /\ lru.at = 1
  /\ lru' = lru_cache(lru, 1, enabled)
  /\ UNCHANGED <<engine, ver, thr, host, sim>>

\* between two listings, clear_mod_cache
LruClear ==
  /\ lru.at = 1
  /\ lru.order # <<>>
  /\ lru' = cache_clear(lru)
  /\ UNCHANGED <<engine, ver, thr, host, sim>>

NextLru ==
  \/ LruList
  \/ \E enabled \in BOOLEAN : LruCall(enabled)
  \/ LruClear

SpecLru == InitLru /\ [][NextLru]_vars

(***************************************************************************)
(* The versions widget asking for the game version.                        *)
(***************************************************************************)
InitVer ==
  /\ EngineIdle
  /\ lru = NoLru
  /\ thr = NoThread
  /\ host = NoHost
  /\ sim = NoSim
  /\ \E o \in Officials : ver = [NoVer EXCEPT !.official = o]

\* versions_widget.get_versions calls flight_sim.get_game_version
GetGameVersion ==
  LET r == get_game_version(ver.official, ver.m)
  IN /\ ver' = [ver EXCEPT !.m = r.m, !.result = [value |-> r.value, err |-> r.err]]
     /\ UNCHANGED <<engine, lru, thr, host, sim>>

\* the simulator is updated: the official packages folder changes
GameUpdate(o) ==
  /\ o # ver.official
  /\ ver' = [ver EXCEPT !.official = o, !.result = NoVersion]
  /\ UNCHANGED <<engine, lru, thr, host, sim>>

\* clear_mod_cache drops what parse_mod_manifest memoized
VerClearCache ==
  /\ ver.m.version # "-"
  /\ ver' = [ver EXCEPT !.m.version = "-", !.result = NoVersion]
  /\ UNCHANGED <<engine, lru, thr, host, sim>>

NextVer ==
  \/ GetGameVersion
  \/ \E o \in Officials : GameUpdate(o)
  \/ VerClearCache

SpecVer == InitVer /\ [][NextVer]_vars

(***************************************************************************)
(* One worker thread under one thread_wait.                                *)
(***************************************************************************)
InitThread ==
  /\ EngineIdle
  /\ lru = NoLru
  /\ ver = NoVer
  /\ host = NoHost
  /\ sim = NoSim
  /\ \E args \in WaitArgs : thr = thread_wait(args)

\* the thread state an action leaves
Thread(t, step) ==
  /\ thr' = [t EXCEPT !.step = step]
  /\ UNCHANGED <<engine, lru, ver, host, sim>>

\* the body of the with statement starts the worker
ThreadStart ==
  /\ thr.worker = "new"
  /\ thr.loop = "made"
  /\ Thread([thr EXCEPT !.worker = "running"], "start")

\* after the body, loop.exec_()
LoopExec ==
  /\ thr.loop = "made"
  /\ thr.worker # "new"
  /\ Thread([thr EXCEPT !.loop = "running"], "exec")

\* the engine call reports progress: activity_update is emitted
WorkerUpdate ==
  /\ thr.worker = "running"
  /\ thr.updates < MaxUpdates
  /\ Thread([thr EXCEPT !.updates = @ + 1, !.queue = Append(@, "update")], "update")

\* the engine call ends and base_thread.run emits
WorkerEnds(result) ==
  /\ thr.worker = "running"
  /\ Thread([thr EXCEPT !.worker = IF result.raised THEN "raised" ELSE "returned",
                        !.result = result,
                        !.early = (thr.loop = "made"),
                        !.calls = @ + run(result).calls,
                        !.emitted = @ \o run(result).emits,
                        !.queue = @ \o [i \in 1..Len(run(result).emits) |->
                                          run(result).emits[i].sig]],
            "ends")

\* a delivery that calls the slots where the signal is emitted, whether or
\* not an event loop runs
Deliver_direct ==
  /\ thr.queue # <<>>
  /\ LET t == [thr EXCEPT !.queue = Tail(@)]
     IN CASE Head(thr.queue) = "finished" -> Thread(finished_slots(t), "finished")
          [] Head(thr.queue) = "failed" -> Thread(failed_slots(t), "failed")
          [] OTHER -> Thread(update_slots(t), "updated")

\* an event loop of the coordination thread takes the next queued signal
Deliver ==
  /\ thr.loop # "made"
  /\ thr.queue # <<>>
  /\ LET t == [thr EXCEPT !.queue = Tail(@)]
     IN CASE Head(thr.queue) = "finished" -> Thread(finished_slots(t), "finished")
          [] Head(thr.queue) = "failed" -> Thread(failed_slots(t), "failed")
          [] OTHER -> Thread(update_slots(t), "updated")

\* the timer fires in an event loop of the coordination thread
Timeout ==
  /\ thr.loop # "made"
  /\ thr.timer = "armed"
  /\ Thread([timeout_quit(thr) EXCEPT
              !.at_timeout = IF thr.loop = "running" THEN thr.worker ELSE @],
            "timeout")

NextThread ==
  \/ ThreadStart
  \/ LoopExec
  \/ WorkerUpdate
  \/ \E result \in Results : WorkerEnds(result)
  \/ Deliver
  \/ Timeout

SpecThread == InitThread /\ [][NextThread]_vars

\* The body of the with statement ends, a running event loop takes every
\* queued signal, and an armed timer fires; the engine call itself may
\* never end.
SpecThreadFair ==
  /\ SpecThread
  /\ WF_vars(LoopExec)
  /\ WF_vars(Deliver)
  /\ WF_vars(Timeout)

(***************************************************************************)
(* The detection of the packages folder on one host.                       *)
(***************************************************************************)
InitHost ==
  /\ EngineIdle
  /\ lru = NoLru
  /\ ver = NoVer
  /\ thr = NoThread
  /\ sim = NoSim
  /\ host \in Hosts

FindSimPackagesFolder ==
  /\ host.found = NoFound
  /\ host' = [host EXCEPT !.found = find_sim_packages_folder(host)]
  /\ UNCHANGED <<engine, lru, ver, thr, sim>>

NextHost == FindSimPackagesFolder

SpecHost == InitHost /\ [][NextHost]_vars

(***************************************************************************)
(* One engine instance whose packages folder is assigned.                  *)
(***************************************************************************)
InitSim ==
  /\ EngineIdle
  /\ lru = NoLru
  /\ ver = NoVer
  /\ thr = NoThread
  /\ host = NoHost
  /\ sim = NoSim

Sim(g, op, value) ==
  /\ sim' = [g EXCEPT !.last = [op |-> op, value |-> value]]
  /\ UNCHANGED <<engine, lru, ver, thr, host>>

\* self.sim_packages_folder = folder
SetSimPackagesFolder(folder) ==
  Sim([sim EXCEPT !.sim_packages_folder = folder], "assign", NoPath)

GetSimModFolder ==
  LET r == get_sim_mod_folder(sim)
  IN Sim(r.g, "get_sim_mod_folder", r.value)

GetModFolder(folder, enabled) ==
  LET r == get_mod_folder_cached(sim, folder, enabled)
  IN Sim(r.g, "get_mod_folder", r.value)

SimClearModCache ==
  Sim(clear_mod_cache_getters(sim), "clear_mod_cache", NoPath)

NextSim ==
  \/ \E folder \in PackagesFolders \ {""} : SetSimPackagesFolder(folder)
  \/ GetSimModFolder
  \/ \E k \in ModKeys : GetModFolder(k[1], k[2])
  \/ SimClearModCache

SpecSim == InitSim /\ [][NextSim]_vars

(***************************************************************************)
(* Properties.                                                             *)
(***************************************************************************)
\* the disk as it is now, with no delete denied
Disk == St(active, cache, 0)

\* the four states of a mod
FourStates(a, c, n) == mod_state(a, c, n) \in {"physical", "linked", "cached", "absent"}

\* the base names of a list of discovered mod folders
BaseNames(found) == [i \in 1..Len(found) |-> found[i].name]

\* enable, disable, enable of mod n, each a call of its own
RoundTrip(s, n) ==
  enable_mod(disable_mod([enable_mod(s, n) EXCEPT !.err = "none"], n), n)

\* C1: an install_mods that completes without error returns the base names
\* of the discovered mod folders in discovery order, and every returned name
\* has a folder in the cache location and, in the active location, a
\* symbolic link to that folder.
C1_InstallReturnsLinkedMods ==
  \A folder \in Archives, delete \in BOOLEAN, fault \in 0..MaxFault :
    LET r == install_mods(St(active, cache, fault), folder, delete)
    IN r.s.err = "none" =>
         /\ r.installed = BaseNames(Discovered[folder])
         /\ \A i \in 1..Len(r.installed) :
              /\ At(r.s, <<"cache", r.installed[i]>>).k = "dir"
              /\ At(r.s, <<"active", r.installed[i]>>)
                   = Link(<<"cache", r.installed[i]>>)

\* an install of two mods has completed: both are freshly copied and linked
C1_Witness ==
  /\ out.op = "install" /\ out.err = "none"
  /\ \A n \in Names : active[n] = Link(<<"cache", n>>) /\ cache[n] = Dir("ok", 1, 1)

\* C2: a completed install, enable, disable or uninstall that starts with
\* every mod in one of the four states (physical in the active location only,
\* cached and linked, cached without a link, absent) leaves every mod in one
\* of the four states.
C2_FourStatesKept ==
  [][(/\ out'.op \in {"install", "enable", "disable", "uninstall"}
      /\ out'.err = "none"
      /\ \A n \in Names : FourStates(active, cache, n))
     => \A n \in Names : FourStates(active', cache', n)]_vars

\* C3: no folder name is in an enabled and in a disabled record of the
\* result of get_all_mods, and a mod whose active entry is a link to its
\* cache folder has no disabled record and at most one record.
C3_ListedOnce ==
  LET mods == get_all_mods(Disk, memo).mods
  IN /\ \A i, j \in 1..Len(mods) :
          (mods[i].enabled /\ ~ mods[j].enabled)
            => mods[i].folder_name # mods[j].folder_name
     /\ \A n \in Names : mod_state(active, cache, n) = "linked" =>
          \A i, j \in 1..Len(mods) :
            mods[i].folder_name = n
              => mods[i].enabled /\ (mods[j].folder_name = n => i = j)

\* C4: every record that get_all_mods returns is the manifest that is on the
\* disk at the record's path: no memoized record outlives a change of the
\* folder it was parsed from.
C4_ListingIsFresh ==
  LET mods == get_all_mods(Disk, memo).mods
  IN \A i \in 1..Len(mods) :
       /\ manifest_error(Disk, mods[i].full_path) = "none"
       /\ mods[i] = manifest_data(Disk, mods[i].full_path, mods[i].enabled)

\* C5: after a completed uninstall of a folder or link of a mod that was
\* linked, physical or cached, the mod has no folder and no link in either
\* location and the next get_all_mods has no record and no error for it.
C5_UninstallLeavesAbsent ==
  [][(/\ out'.op = "uninstall" /\ out'.err = "none"
      /\ out'.was \in {"linked", "physical", "cached"}
      /\ At(Disk, out'.arg).k # "none")
     => LET n == out'.arg[2]
            L == get_all_mods(St(active', cache', 0), memo')
        IN /\ active'[n] = None /\ cache'[n] = None
           /\ \A i \in 1..Len(L.mods) : L.mods[i].folder_name # n
           /\ \A i \in 1..Len(L.errors) : L.errors[i][2] # n]_vars

\* C6: a disable of a mod whose active entry is a symbolic link completes,
\* removes that link and changes nothing else: the cache location and the
\* active entries of the other mods are as before.
C6_DisableLinkedRemovesOnlyLink ==
  [][\A n \in Names :
       (/\ out'.op = "disable" /\ out'.arg[2] = n
        /\ is_symlink(Disk, <<"active", n>>))
       => /\ out'.err = "none"
          /\ cache' = cache
          /\ active' = [active EXCEPT ![n] = None]]_vars

\* a linked mod was disabled next to another linked mod: its link is gone,
\* its cache folder and the other mod's link are there
C6_Witness ==
  /\ out.op = "disable" /\ out.was = "linked" /\ out.err = "none"
  /\ \E n, m \in Names :
       /\ n # m /\ out.arg[2] = n
       /\ active[n] = None /\ cache[n].k = "dir"
       /\ mod_state(active, cache, m) = "linked"

\* C7: an enable of a mod that has no folder in the cache location raises an
\* exception and leaves both locations as they were, so no link is created.
C7_EnableWithoutCacheFails ==
  [][\A n \in Names :
       (/\ out'.op = "enable" /\ out'.arg[2] = n
        /\ cache[n].k # "dir")
       => /\ out'.err # "none"
          /\ active' = active
          /\ cache' = cache]_vars

\* an enable of a mod that is physically in the active location, and of no
\* cache folder, has failed
C7_Witness ==
  /\ out.op = "enable" /\ out.was = "physical" /\ out.err = "FileNotFoundError"
  /\ \E n \in Names :
       out.arg[2] = n /\ active[n].k = "dir" /\ cache[n] = None

\* C8: a disable of a mod that is cached without a link, and an enable of a
\* mod that is linked or physically active, leave the folder of the mod as it
\* was (and the link, if it had one), whether or not they raise.
C8_RepeatedToggleKeepsData ==
  [][\A n \in Names :
       /\ (/\ out'.op = "disable" /\ out'.arg[2] = n
           /\ mod_state(active, cache, n) = "cached")
          => cache'[n] = cache[n]
       /\ (/\ out'.op = "enable" /\ out'.arg[2] = n
           /\ mod_state(active, cache, n) = "linked")
          => cache'[n] = cache[n] /\ active'[n] = active[n]
       /\ (/\ out'.op = "enable" /\ out'.arg[2] = n
           /\ mod_state(active, cache, n) = "physical")
          => active'[n] = active[n]]_vars

\* a cached mod without a link was disabled again and its folder, manifest
\* and data, is still in the cache location
C8_Witness ==
  /\ out.op = "disable" /\ out.was = "cached"
  /\ \E n \in Names :
       /\ out.arg[2] = n /\ active[n] = None
       /\ cache[n].k = "dir" /\ cache[n].man = "ok" /\ cache[n].data = 1

\* C9: after a completed install, enable, disable, enable on an installed
\* mod leave its file set (parse_mod_files, through the active and through
\* the cache path) as it was right after the install, the mod linked, and
\* the cache folder the very tree the install made: no tree is copied.
C9_RoundTripKeepsFiles ==
  \A folder \in Archives, delete \in BOOLEAN :
    LET r == install_mods(Disk, folder, delete)
    IN r.s.err = "none" =>
         \A i \in 1..Len(r.installed) :
           LET n == r.installed[i]
               t == RoundTrip(r.s, n)
           IN /\ t.err = "none"
              /\ parse_mod_files(t, <<"cache", n>>) = parse_mod_files(r.s, <<"cache", n>>)
              /\ parse_mod_files(t, <<"active", n>>) = parse_mod_files(r.s, <<"active", n>>)
              /\ At(t, <<"active", n>>) = Link(<<"cache", n>>)
              /\ At(t, <<"cache", n>>) = At(r.s, <<"cache", n>>)
              /\ t.copies = r.s.copies

\* a mod was installed, and its round trip from here ends where it starts,
\* with the files the install copied
C9_Witness ==
  /\ out.op = "install" /\ out.err = "none"
  /\ \E n \in Names :
       /\ active[n] = Link(<<"cache", n>>) /\ cache[n] = Dir("ok", 1, 1)
       /\ RoundTrip(Disk, n).fs = Disk.fs
       /\ parse_mod_files(RoundTrip(Disk, n), <<"active", n>>)
            = {<<"manifest.json", 2>>, <<"data.bin", 1>>}

\* C11: when install_mods raises while it processes a discovered mod folder,
\* the mods processed before it are a proper prefix of the discovered names
\* and each still has its cache folder and its active link; the failing
\* folder was copied at most once (nothing is retried).
C11_PartialInstallKept ==
  \A folder \in Archives, delete \in BOOLEAN, fault \in 0..MaxFault :
    LET r == install_mods(St(active, cache, fault), folder, delete)
        names == BaseNames(Discovered[folder])
    IN r.s.err \notin {"none", "NoModsError"} =>
         /\ Len(r.installed) < Len(names)
         /\ r.installed = SubSeq(names, 1, Len(r.installed))
         /\ r.s.copies <= Len(r.installed) + 1
         /\ \A i \in 1..Len(r.installed) :
              /\ At(r.s, <<"cache", r.installed[i]>>).k = "dir"
              /\ At(r.s, <<"active", r.installed[i]>>)
                   = Link(<<"cache", r.installed[i]>>)

\* an install of two mods has failed at the second, whose name is a real
\* folder of the active location: the first is copied and linked
C11_Witness ==
  /\ out.op = "install" /\ out.err = "FileExistsError"
  /\ \E n, m \in Names :
       /\ n # m
       /\ active[n] = Link(<<"cache", n>>) /\ cache[n] = Dir("ok", 1, 1)
       /\ active[m].k = "dir" /\ cache[m] = Dir("ok", 1, 1)

\* every folder of an extracted archive, the root included, with its place
RECURSIVE Folders(_, _)
Folders(node, id) ==
  {[node |-> node, id |-> id]}
    \cup UNION {Folders(node.sub[i], Append(id, i)) : i \in 1..Len(node.sub)}

\* the folders of an archive that directly hold a manifest.json
ManifestFolders(a) == {g \in Folders(a, <<>>) : has_manifest(g.node)}

\* C12: determine_mod_folders returns the folders that directly hold a
\* manifest.json, the root and nested ones included, each once and under its
\* own name; when there is none, install_mods raises NoModsError and leaves
\* the active location, the cache location and the metadata cache as they
\* were.
C12_DiscoveryExact ==
  /\ [](\A a \in Archives :
         /\ {[node |-> Discovered[a][i].name, id |-> Discovered[a][i].id] : i \in 1..Len(Discovered[a])}
              = {[node |-> g.node.name, id |-> g.id] : g \in ManifestFolders(a)}
         /\ Len(Discovered[a]) = Cardinality(ManifestFolders(a))
         /\ \A delete \in BOOLEAN, fault \in 0..MaxFault :
              ManifestFolders(a) = {} =>
                /\ install_mods(St(active, cache, fault), a, delete).s.err = "NoModsError"
                /\ install_mods(St(active, cache, fault), a, delete).s.fs = Disk.fs)
  /\ [][out'.op = "install" /\ out'.err = "NoModsError"
          => UNCHANGED <<active, cache, memo>>]_vars

\* an install of an archive without any manifest.json has raised NoModsError
\* in a state with memoized manifests, and some archive holds a mod folder
\* nested in another one, both discovered
C12_Witness ==
  /\ out.op = "install" /\ out.err = "NoModsError"
  /\ memo # clear_mod_cache
  /\ \E a \in Archives : \E g, h \in ManifestFolders(a) :
       /\ Len(h.id) > Len(g.id) /\ IsPrefix(g.id, h.id)
       /\ \E i, j \in 1..Len(Discovered[a]) :
            i < j /\ Discovered[a][i].id = g.id /\ Discovered[a][j].id = h.id

\* C13: a call of parse_mod_manifest with arguments it was called with since
\* the last clear_mod_cache is a hit: it does not parse from the disk again.
C13_NoEviction ==
  [][(/\ lru'.last # NoCall
      /\ <<lru'.last.path, lru'.last.enabled>> \in lru.seen)
     => lru'.last.hit]_vars

\* C14: a call of parse_mod_manifest for a path that has an entry in the
\* cache, under either value of enabled, is a hit, and the cache then holds
\* one entry for the path.
C14_KeyedByPath ==
  [][(/\ lru'.last # NoCall
      /\ \E i \in 1..Len(lru.order) : lru.order[i][1] = lru'.last.path)
     => /\ lru'.last.hit
        /\ \A i, j \in 1..Len(lru'.order) :
             (lru'.order[i][1] = lru'.last.path /\ lru'.order[j][1] = lru'.last.path)
               => i = j]_vars

\* C15: get_game_version raises nothing; it returns the
\* minimum_game_version of the manifest of fs-base in the first store folder
\* when that manifest is there and readable, and the sentinel otherwise.
C15_GameVersionNeverFails ==
  ver.result # NoVersion =>
    /\ ver.result.err = "none"
    /\ ver.result.value =
         IF /\ Len(ver.official) >= 1
            /\ ver.official[1].k = "dir"
            /\ ver.official[1].man = "ok"
         THEN ver.official[1].version
         ELSE "???"

\* C16: a disable that completes on a mod that is a real folder of the active
\* location leaves no entry of that name in the active location and, in the
\* cache location, a folder of that name with the file set (parse_mod_files)
\* the active folder had.
C16_DisablePhysicalMoves ==
  [][\A n \in Names :
       (/\ out'.op = "disable" /\ out'.arg[2] = n /\ out'.err = "none"
        /\ active[n].k = "dir")
       => /\ active'[n] = None
          /\ cache'[n].k = "dir"
          /\ parse_mod_files(St(active', cache', 0), <<"cache", n>>)
               = parse_mod_files(Disk, <<"active", n>>)]_vars

\* a mod that was a real folder of the active location was disabled: it is
\* in the cache location, freshly copied, and gone from the active location
C16_Witness ==
  /\ out.op = "disable" /\ out.was = "physical" /\ out.err = "none"
  /\ \E n \in Names :
       out.arg[2] = n /\ active[n] = None /\ cache[n] = Dir("ok", 1, 1)

\* C17: an install_mods that completes calls clear_mod_cache once, when every
\* discovered mod folder is installed; one that raises never calls it; so no
\* call clears the metadata cache between two mod folders of its batch.
C17_ClearedOnceAfterBatch ==
  \A folder \in Archives, delete \in BOOLEAN, fault \in 0..MaxFault :
    LET r == install_mods(St(active, cache, fault), folder, delete)
    IN r.clears = IF r.s.err = "none" THEN <<Len(Discovered[folder])>> ELSE <<>>

\* an install of a batch of two mods has completed and nothing is memoized
C17_Witness ==
  /\ out.op = "install" /\ out.err = "none"
  /\ memo = clear_mod_cache
  /\ \A n \in Names : mod_state(active, cache, n) = "linked" /\ cache[n].ct = 1

\* the folders get_all_mods goes through, in its order
Listed == listdir_dirs(Disk, "active") \o disabled_folders(Disk)

\* C18: a get_all_mods that completes has removed every listed entry that
\* was an empty folder or a broken symbolic link, and has neither a record
\* nor an error for it; and no listing, completed or not, changes a folder
\* that holds files or a link to one.
C18_ListingDeletesEmptyAndBroken ==
  \A fault \in 0..MaxFault :
    LET L == get_all_mods(St(active, cache, fault), memo)
    IN /\ L.s.err = "none" =>
            \A k \in 1..Len(Listed) :
              os_listdir(Disk, Listed[k]) \in {"empty", "missing"} =>
                /\ At(L.s, Listed[k]) = None
                /\ \A i \in 1..Len(L.errors) : L.errors[i] # Listed[k]
                /\ \A i \in 1..Len(L.mods) : L.mods[i].full_path # Listed[k]
       /\ \A p \in Paths :
            os_listdir(Disk, p) = "files" => At(L.s, p) = At(Disk, p)

\* after an uninstall the locations list an empty folder, a broken link and
\* nothing else, and the listing from here removes both
C18_Witness ==
  /\ out.op = "uninstall" /\ out.err = "none"
  /\ \E p, q \in Paths :
       /\ \E i, j \in 1..Len(Listed) : Listed[i] = p /\ Listed[j] = q
       /\ At(Disk, p).k = "dir" /\ os_listdir(Disk, p) = "empty"
       /\ At(Disk, q).k = "link" /\ os_listdir(Disk, q) = "missing"
       /\ get_all_mods(Disk, memo).s.fs
            = [active |-> [n \in Names |-> None], cache |-> [n \in Names |-> None]]

\* C19: a run of a worker thread that has ended made the wrapped call once
\* and emitted exactly one signal: finished with the return value when the
\* call returned, failed with the exception when it raised; a run that has
\* not ended has emitted neither.
C19_OneTerminalEvent ==
  /\ thr.calls <= 1
  /\ thr.worker \in {"new", "running"} => thr.emitted = <<>> /\ thr.calls = 0
  /\ thr.worker = "returned" =>
       /\ thr.calls = 1
       /\ ~ thr.result.raised
       /\ thr.emitted = <<[sig |-> "finished", val |-> thr.result.val]>>
  /\ thr.worker = "raised" =>
       /\ thr.calls = 1
       /\ thr.result.raised
       /\ thr.emitted = <<[sig |-> "failed", val |-> thr.result.val]>>

C19_Witness ==
  /\ thr.worker = "raised"
  /\ thr.result = [raised |-> TRUE, val |-> "NoModsError"]
  /\ thr.emitted = <<[sig |-> "failed", val |-> "NoModsError"]>>
  /\ thr.step = "failed"

\* C20: the step in which the timer of thread_wait fires while its loop
\* runs ends the loop with exit code 1 and leaves the worker, what it has
\* emitted and the queued signals as they were; and every delivery of the
\* finished signal, after a timeout as before, calls the finish function
\* when one was given.
C20_TimeoutLeavesWorker ==
  [][/\ thr'.step = "timeout" =>
         /\ thr.loop = "running" => thr'.loop = "failed"
         /\ thr'.worker = thr.worker
         /\ thr'.result = thr.result
         /\ thr'.emitted = thr.emitted
         /\ thr'.queue = thr.queue
         /\ thr'.args = thr.args
     /\ thr'.step = "finished" /\ thr.args.finish_func =>
         thr'.finish_calls = thr.finish_calls + 1
     /\ thr.at_timeout = "running" /\ thr.worker = "running" =>
         \A result \in Results : ENABLED WorkerEnds(result)]_vars

C20_Witness ==
  /\ thr.at_timeout = "running"
  /\ thr.loop = "failed"
  /\ thr.worker = "returned"
  /\ thr.step = "finished"
  /\ thr.args.finish_func
  /\ thr.finish_calls = 1
  /\ thr.failed_calls = 0

\* C21: find_sim_packages_folder raises nothing: it returns (True, path)
\* when the configured path is a packages folder, else (False, path) for
\* the first candidate in the order Steam, MS Store, boxed edition,
\* last-ditch Steam #1, last-ditch Steam #2 that is valid, else
\* (False, None); a sim folder whose UserCfg.opt is missing or has no
\* InstalledPackagesPath line is not a valid candidate.
C21_FindNeverRaises ==
  LET r == find_sim_packages_folder(host)
      valid(f) == /\ host.folders[f] = "line"
                  /\ installed_packages_path(f) \in host.packages
      expected ==
        CASE host.config.succeed /\ host.config.value \in host.packages ->
               [read |-> TRUE, path |-> host.config.value, err |-> "none"]
          [] valid("steam") -> [read |-> FALSE, path |-> installed_packages_path("steam"), err |-> "none"]
          [] valid("ms_store") -> [read |-> FALSE, path |-> installed_packages_path("ms_store"), err |-> "none"]
          [] boxed_packages_folder \in host.packages ->
               [read |-> FALSE, path |-> boxed_packages_folder, err |-> "none"]
          [] valid("last_ditch_1") -> [read |-> FALSE, path |-> installed_packages_path("last_ditch_1"), err |-> "none"]
          [] valid("last_ditch_2") -> [read |-> FALSE, path |-> installed_packages_path("last_ditch_2"), err |-> "none"]
          [] OTHER -> [read |-> FALSE, path |-> NoPath, err |-> "none"]
  IN r = expected

\* C22: in every state of an engine instance, get_sim_mod_folder returns
\* the Community folder of the current sim_packages_folder and
\* get_mod_folder(name, enabled=True) a path under it, whatever was called
\* or cleared before.
C22_GettersFollowAssignment ==
  /\ get_sim_mod_folder(sim).value = <<sim.sim_packages_folder, "Community">>
  /\ \A name \in Names :
       get_mod_folder_cached(sim, name, TRUE).value
         = <<sim.sim_packages_folder, "Community", name>>

\* C23: a finished signal, or a failed signal with a failed function
\* connected, that the worker emits before loop.exec_() is still queued
\* when the loop starts, is never taken before it, ends the loop when it
\* is taken, and so the wait returns, with or without a timeout.
C23_EarlyEmissionNotLost ==
  /\ [](thr.loop = "made" /\ thr.worker \in {"returned", "raised"} =>
          thr.queue # <<>> /\
          thr.queue[Len(thr.queue)] = thr.emitted[Len(thr.emitted)].sig)
  /\ [][/\ thr'.step \in {"finished", "failed", "updated"} => thr.loop # "made"
        /\ thr'.step = "finished" /\ thr.loop = "running" => thr'.loop = "quit"
        /\ thr'.step = "failed" /\ thr.loop = "running" /\ thr.args.failed =>
             thr'.loop = "failed"]_vars
  /\ (thr.early /\ (thr.worker = "returned" \/ thr.args.failed))
       ~> (thr.loop \in {"quit", "failed"})

C23_Witness ==
  /\ thr.early
  /\ ~ thr.args.timeout
  /\ thr.worker = "returned"
  /\ thr.step = "finished"
  /\ thr.loop = "quit"

\* C24: once the worker has emitted finished or failed, thread_wait
\* eventually returns, in every configuration of its arguments.
C24_WaitReturns ==
  (thr.worker \in {"returned", "raised"}) ~> (thr.loop \in {"quit", "failed"})

\* C10: get_all_mods raises nothing; every listed folder that holds files
\* and has no readable manifest is in the error list and in no record, and
\* every other listed folder that holds files is in a record and not in the
\* error list.
C10_ListingCollectsUnreadable ==
  LET L == get_all_mods(Disk, memo)
      listed == listdir_dirs(Disk, "active") \o disabled_folders(Disk)
  IN /\ L.s.err = "none"
     /\ \A k \in 1..Len(listed) :
          os_listdir(Disk, listed[k]) = "files" =>
            IF manifest_error(Disk, listed[k]) = "none"
            THEN /\ \E i \in 1..Len(L.mods) : L.mods[i].full_path = listed[k]
                 /\ \A i \in 1..Len(L.errors) : L.errors[i] # listed[k]
            ELSE /\ \E i \in 1..Len(L.errors) : L.errors[i] = listed[k]
                 /\ \A i \in 1..Len(L.mods) : L.mods[i].full_path # listed[k]


====
